---- MODULE Spec2Model ----
(***************************************************************************)
(* The quadratic simulator and the two summary statistics of               *)
(* tutorials/08_crafting_summary_statistics.ipynb: create_t_x, eval,       *)
(* get_3_values and get_MSE.                                               *)
(*                                                                         *)
(* Real numbers are exact fractions over fixed denominators:               *)
(*   - a parameter a, b, c is an integer number of tenths (0.3 is 3);      *)
(*   - a grid time is a numerator over GridPoints - 1;                     *)
(*   - a time handed to eval is an integer number of quarters;             *)
(*   - a standard-normal draw is an integer in -2 .. 2;                    *)
(*   - a trace value is a numerator over 100 * (GridPoints - 1)^2;         *)
(*   - a value of eval is a numerator over 800;                            *)
(*   - a mean squared error is a numerator over                            *)
(*     GridPoints * (100 * (GridPoints - 1)^2)^2.                          *)
(* A numpy array is [ndim, rows]: a 1-D array of length k is one row of    *)
(* length k with ndim = 1, a 2-D array of shape (N, k) is N rows of        *)
(* length k with ndim = 2.                                                 *)
(***************************************************************************)
EXTENDS Integers, Sequences, FiniteSets, TLC

\* Number of points of the time grid (np.linspace(-1, 1, 200) in the source,
\* scaled down).
GridPoints == 4

\* Largest batch size N of a parameter batch.
MaxN == 2

VARIABLES theta, theta_o, first, last

vars == <<theta, theta_o, first, last>>

----------------------------------------------------------------------------
(* Values *)

\* seed=None
None == <<>>

Some(s) == <<s>>

Array1D(v) == [ndim |-> 1, rows |-> <<v>>]

Array2D(rs) == [ndim |-> 2, rows |-> rs]

NoArray == [ndim |-> 0, rows |-> <<>>]

\* Well-formed parameter vectors (a, b, c) in tenths: (1, 0, 0) and the
\* notebook's theta_o = (0.3, -0.2, -0.1).
Triples == {<<10, 0, 0>>, <<3, -2, -1>>}

\* Vectors whose length is not 3.
Malformed == {<<10, 0>>, <<10, 0, 0, 5>>}

Batches(S) == UNION {[1..n -> S] : n \in 1..MaxN}

\* What a caller may pass as theta: a single vector or a batch, well formed or not.
ThetaInputs ==
    {Array1D(v) : v \in Triples \cup Malformed}
        \cup {Array2D(rs) : rs \in Batches(Triples)}
        \cup {Array2D(<<v>>) : v \in Malformed}

\* theta_o is a single parameter vector.
RefInputs == {Array1D(v) : v \in Triples}

SeedInputs == {None, Some(1), Some(2)}

\* What RandomState() may read from the operating system when no seed is given.
Entropy == {1, 8}

\* The three times of get_3_values, -0.5, 0 and 0.75, in quarters.
ThreeTimes == <<-2, 0, 3>>

TimeInputs == {ThreeTimes[k] : k \in 1..3}

\* The entropy that each of the n generators of one call finds.
EntropyInputs(n) == [1..n -> Entropy]

----------------------------------------------------------------------------
(* numpy *)

\* The pseudo-random generator: a full-period linear congruential generator
\* stands for the Mersenne Twister; a draw is the high digit of its state.
MTStep(s) == (6 * s + 1) % 25

RECURSIVE MTAdvance(_, _)
MTAdvance(s, k) == IF k = 0 THEN s ELSE MTAdvance(MTStep(s), k - 1)

Gauss(s) == (s \div 5) - 2

\* The k-th standard-normal draw (k = 0, 1, ...) of a generator built from key.
Draw(key, k) == Gauss(MTAdvance(key % 25, k + 1))

RECURSIVE MTStates(_, _)
MTStates(s, n) == IF n = 0 THEN <<>> ELSE <<MTStep(s)>> \o MTStates(MTStep(s), n - 1)

\* A generator that ignores the seed it is given.
RandomStateUnseeded(seed, entropy) == [key |-> entropy]

\* A generator whose state is carried over from the call before.
RandomStateShared(seed, entropy) ==
    IF first.op = "none"
    THEN [key |-> IF seed # None THEN seed[1] ELSE entropy]
    ELSE [key |-> MTStep(first.keys[1] % 25)]

\* A generator that falls back to a fixed default seed.
RandomStateDefault(seed, entropy) == [key |-> IF seed # None THEN seed[1] ELSE 0]

\* np.random.RandomState(seed) if seed is not None else np.random.RandomState()
RandomState(seed, entropy) ==
    [key |-> IF seed # None THEN seed[1] ELSE entropy]

\* rng.randn(n): the next n draws, in order.
Randn(rng, n) ==
    LET states == MTStates(rng.key % 25, n)
    IN  [k \in 1..n |-> Gauss(states[k])]

\* A matrix of draws filled column by column.
RandnMatrixColumnMajor(rng, nrows, ncols) ==
    LET draws == Randn(rng, nrows * ncols)
    IN  [i \in 1..nrows |-> [j \in 1..ncols |-> draws[(j - 1) * nrows + i]]]

\* rng.randn(nrows, ncols): the next nrows * ncols draws, filled row by row.
RandnMatrix(rng, nrows, ncols) ==
    LET draws == Randn(rng, nrows * ncols)
    IN  [i \in 1..nrows |-> [j \in 1..ncols |-> draws[(i - 1) * ncols + j]]]

\* np.linspace(-1, 1, n), as numerators over n - 1.
Linspace(n) == [i \in 1..n |-> 2 * (i - 1) - (n - 1)]

\* np.repeat(t[:, np.newaxis], n, axis=1)
Repeat(t, n) == [i \in 1..Len(t) |-> [j \in 1..n |-> t[i]]]

\* if theta.ndim == 1: theta = theta[np.newaxis, :]
AtLeast2D(a) == IF a.ndim = 1 THEN [ndim |-> 2, rows |-> a.rows] ELSE a

\* a.shape[0] and a.shape[1] of a 2-D array.
Shape0(a) == Len(a.rows)

Shape1(a) == Len(a.rows[1])

\* a[:, c] raises IndexError unless c < a.shape[1].
HasColumn(a, c) == c < Shape1(a)

Column(a, c) == [j \in 1..Shape0(a) |-> a.rows[j][c + 1]]

\* M.T
Transpose(M) == [j \in 1..Len(M[1]) |-> [i \in 1..Len(M) |-> M[i][j]]]

\* A - B, where B of one column is broadcast over the columns of A.
Subtract(A, B) ==
    [i \in 1..Len(A) |->
        [j \in 1..Len(A[i]) |-> A[i][j] - B[i][IF Len(B[i]) = 1 THEN 1 ELSE j]]]

Square(A) == [i \in 1..Len(A) |-> [j \in 1..Len(A[i]) |-> A[i][j] * A[i][j]]]

RECURSIVE ColumnSum(_, _, _)
ColumnSum(A, j, n) == IF n = 0 THEN 0 ELSE ColumnSum(A, j, n - 1) + A[n][j]

\* np.mean(A, axis=0, keepdims=True), as numerators over Len(A).
MeanAxis0(A) == <<[j \in 1..Len(A[1]) |-> ColumnSum(A, j, Len(A))]>>

----------------------------------------------------------------------------
(* The notebook's functions *)

IndexError == [err |-> TRUE, t |-> <<>>, val |-> NoArray]

Returned(t, ndim, rows) == [err |-> FALSE, t |-> t, val |-> [ndim |-> ndim, rows |-> rows]]

\* The inner dimension the indexing theta[:, 0], theta[:, 1], theta[:, 2] needs.
Indexable(th) == HasColumn(th, 0) /\ HasColumn(th, 1) /\ HasColumn(th, 2)

\* Every column of the trace built from the first parameter vector.
QuadraticFirstRow(th, ts, noise) ==
    LET D == Len(ts) - 1
        a == Column(th, 0)
        b == Column(th, 1)
        c == Column(th, 2)
    IN  [i \in 1..Len(ts) |-> [j \in 1..Shape0(th) |->
            10 * a[1] * ts[i][j] * ts[i][j]
                + 10 * D * b[1] * ts[i][j]
                + 10 * D * D * c[1]
                + D * D * noise[i][j]]]

\* theta[:, 0] * ts**2 + theta[:, 1] * ts + theta[:, 2] + 0.01 * noise,
\* over 100 * D^2 where D is the denominator of the grid times.
Quadratic(th, ts, noise) ==
    LET D == Len(ts) - 1
        a == Column(th, 0)
        b == Column(th, 1)
        c == Column(th, 2)
    IN  [i \in 1..Len(ts) |-> [j \in 1..Shape0(th) |->
            10 * a[j] * ts[i][j] * ts[i][j]
                + 10 * D * b[j] * ts[i][j]
                + 10 * D * D * c[j]
                + D * D * noise[i][j]]]

create_t_x(arg, rng) ==
    LET th == AtLeast2D(arg)
        t == Linspace(GridPoints)
        ts == Repeat(t, Shape0(th))
    IN  IF ~Indexable(th) THEN IndexError
        ELSE Returned(t, 2, Quadratic(th, ts, RandnMatrix(rng, Len(ts), Shape0(th))))

\* eval with one draw per element of the batch.
evalPerElement(arg, tq, rng) ==
    LET th == AtLeast2D(arg)
        noise == Randn(rng, Shape0(th))
    IN  IF ~Indexable(th) THEN IndexError
        ELSE Returned(<<>>, 1, <<[j \in 1..Shape0(th) |->
                5 * th.rows[j][1] * tq * tq
                    + 20 * th.rows[j][2] * tq
                    + 80 * th.rows[j][3]
                    + 8 * noise[j]]>>)

\* theta[:, 0] * t**2 + theta[:, 1] * t + theta[:, 2] + 0.01 * rng.randn(1),
\* over 800, the time t being tq quarters.
eval(arg, tq, rng) ==
    LET th == AtLeast2D(arg)
        noise == Randn(rng, 1)
    IN  IF ~Indexable(th) THEN IndexError
        ELSE Returned(<<>>, 1, <<[j \in 1..Shape0(th) |->
                5 * th.rows[j][1] * tq * tq
                    + 20 * th.rows[j][2] * tq
                    + 80 * th.rows[j][3]
                    + 8 * noise[1]]>>)

\* get_3_values with one generator handed from one eval to the next.
get_3_valuesOneGenerator(arg, rngs) ==
    LET e == [k \in 1..3 |->
                eval(arg, ThreeTimes[k], [key |-> MTAdvance(rngs[1].key % 25, k - 1)])]
    IN  IF \E k \in 1..3 : e[k].err THEN IndexError
        ELSE Returned(<<>>, 2, Transpose([k \in 1..3 |-> e[k].val.rows[1]]))

\* get_3_values without the transposition.
get_3_valuesUntransposed(arg, rngs) ==
    LET e == [k \in 1..3 |-> eval(arg, ThreeTimes[k], rngs[k])]
    IN  IF \E k \in 1..3 : e[k].err THEN IndexError
        ELSE Returned(<<>>, 2, [k \in 1..3 |-> e[k].val.rows[1]])

\* np.array([eval(theta, -0.5, seed), eval(theta, 0, seed), eval(theta, 0.75, seed)]).T
get_3_values(arg, rngs) ==
    LET e == [k \in 1..3 |-> eval(arg, ThreeTimes[k], rngs[k])]
    IN  IF \E k \in 1..3 : e[k].err THEN IndexError
        ELSE Returned(<<>>, 2, Transpose([k \in 1..3 |-> e[k].val.rows[1]]))

\* get_MSE with one generator handed from the first create_t_x to the second.
get_MSEOneGenerator(arg, ref, rngs) ==
    LET x == create_t_x(ref, rngs[1])
        x_ == create_t_x(arg, [key |-> MTAdvance(rngs[1].key % 25, GridPoints)])
    IN  IF x.err \/ x_.err THEN IndexError
        ELSE Returned(<<>>, 2,
                Transpose(MeanAxis0(Square(Subtract(x_.val.rows, x.val.rows)))))

\* get_MSE that averages the differences instead of their squares.
get_MSEUnsquared(arg, ref, rngs) ==
    LET x == create_t_x(ref, rngs[1])
        x_ == create_t_x(arg, rngs[2])
    IN  IF x.err \/ x_.err THEN IndexError
        ELSE Returned(<<>>, 2, Transpose(MeanAxis0(Subtract(x_.val.rows, x.val.rows))))

\* _, x = create_t_x(theta_o, seed=seed); _, x_ = create_t_x(theta, seed=seed)
\* np.mean(np.square(x_ - x), axis=0, keepdims=True).T
get_MSE(arg, ref, rngs) ==
    LET x == create_t_x(ref, rngs[1])
        x_ == create_t_x(arg, rngs[2])
    IN  IF x.err \/ x_.err THEN IndexError
        ELSE Returned(<<>>, 2,
                Transpose(MeanAxis0(Square(Subtract(x_.val.rows, x.val.rows)))))

----------------------------------------------------------------------------
(* The calls a notebook session makes *)

\* The calls made since theta was last bound are calls of one function, seeded
\* or not: first is the first of them and last is the latest of those made
\* after it. No call reads anything but its arguments, so the calls of the other
\* functions that a session makes in between add nothing to what is compared.
NoCall ==
    [op |-> "none", theta |-> NoArray, ref |-> NoArray, tq |-> 0, seed |-> None,
     keys |-> <<>>, out |-> IndexError]

Call(op, arg, ref, tq, seed, rngs, out) ==
    [op |-> op, theta |-> arg, ref |-> ref, tq |-> tq, seed |-> seed,
     keys |-> [k \in 1..Len(rngs) |-> rngs[k].key], out |-> out]

Init ==
    /\ theta \in ThetaInputs
    /\ theta_o \in RefInputs
    /\ first = NoCall
    /\ last = NoCall

\* A call returns; the arrays it was given are the caller's and are not written.
Return(call) ==
    /\ first' = IF first = NoCall THEN call ELSE first
    /\ last' = IF first = NoCall THEN NoCall ELSE call
    /\ UNCHANGED <<theta, theta_o>>

\* theta = prior.sample((n,)): the caller binds theta to a new array.
SampleTheta ==
    /\ theta' \in ThetaInputs
    /\ first' = NoCall
    /\ last' = NoCall
    /\ UNCHANGED theta_o

\* One call of a function of the notebook with the entropy e its generators find.
Invoke(op, arg, ref, tq, seed, e) ==
    LET rngs == [k \in 1..Len(e) |-> RandomState(seed, e[k])]
    IN  Call(op, arg, ref, tq, seed, rngs,
             CASE op = "create_t_x" -> create_t_x(arg, rngs[1])
               [] op = "eval" -> eval(arg, tq, rngs[1])
               [] op = "get_3_values" -> get_3_values(arg, rngs)
               [] op = "get_MSE" -> get_MSE(arg, ref, rngs))

\* t, x = create_t_x(theta, seed)
CallCreateTX ==
    /\ first.op \in {"none", "create_t_x"}
    /\ \E seed \in SeedInputs, e \in EntropyInputs(1) :
            Return(Invoke("create_t_x", theta, NoArray, 0, seed, e))

\* eval(theta, t, seed)
CallEval ==
    /\ first.op \in {"none", "eval"}
    /\ \E seed \in SeedInputs, tq \in TimeInputs, e \in EntropyInputs(1) :
            Return(Invoke("eval", theta, NoArray, tq, seed, e))

\* x = get_3_values(theta, seed)
CallGet3Values ==
    /\ first.op \in {"none", "get_3_values"}
    /\ \E seed \in SeedInputs, e \in EntropyInputs(3) :
            Return(Invoke("get_3_values", theta, NoArray, 0, seed, e))

\* x = get_MSE(theta, theta_o, seed)
CallGetMSE ==
    /\ first.op \in {"none", "get_MSE"}
    /\ \E seed \in SeedInputs, e \in EntropyInputs(2) :
            Return(Invoke("get_MSE", theta, theta_o, 0, seed, e))

Next ==
    \/ SampleTheta
    \/ CallCreateTX
    \/ CallEval
    \/ CallGet3Values
    \/ CallGetMSE

Spec == Init /\ [][Next]_vars

----------------------------------------------------------------------------
(* Properties *)

Calls == {first, last} \ {NoCall}

\* The latest call that has returned or failed.
Latest == IF last.op # "none" THEN last ELSE first

SameInputs(c, d) ==
    /\ c.op = d.op
    /\ c.theta = d.theta
    /\ c.ref = d.ref
    /\ c.tq = d.tq
    /\ c.seed = d.seed

\* The batch size N of an input: 1 for a single vector.
BatchSize(a) == IF a.ndim = 1 THEN 1 ELSE Len(a.rows)

\* The length k of the vectors of an input.
InnerDim(a) == Len(a.rows[1])

\* a * t^2 + b * t + c for the vector v = (a, b, c) in tenths and the time
\* num / den, as a numerator over 10 * den^2.
Parabola(v, num, den) == v[1] * num * num + v[2] * num * den + v[3] * den * den

\* The value create_t_x owes at time index i (from 1) for sample j (from 1) of
\* a batch of n, over 100 * (GridPoints - 1)^2: the parabola of vector j at the
\* i-th grid time plus 0.01 times draw (i - 1) * n + (j - 1) of the generator.
TraceValue(a, key, t, i, j) ==
    10 * Parabola(a.rows[j], t[i], GridPoints - 1)
        + (GridPoints - 1) * (GridPoints - 1)
            * Draw(key, (i - 1) * BatchSize(a) + (j - 1))

\* The noise-free value eval owes for sample j at tq quarters, over 800.
PointValue(a, j, tq) == 5 * Parabola(a.rows[j], tq, 4)

\* C1: two calls of create_t_x with the same parameter batch and the same
\* non-None seed return the same time grid and the same trace, entry by entry.
C1_SeededDeterminism ==
    (/\ first.op = "create_t_x"
     /\ last.op = "create_t_x"
     /\ first.theta = last.theta
     /\ first.seed = last.seed
     /\ last.seed # None)
        => /\ first.out.err = last.out.err
           /\ first.out.t = last.out.t
           /\ first.out.val.ndim = last.out.val.ndim
           /\ Len(first.out.val.rows) = Len(last.out.val.rows)
           /\ \A i \in 1..Len(last.out.val.rows) :
                /\ Len(first.out.val.rows[i]) = Len(last.out.val.rows[i])
                /\ \A j \in 1..Len(last.out.val.rows[i]) :
                     first.out.val.rows[i][j] = last.out.val.rows[i][j]

\* Two seeded calls of create_t_x on the same batch of two vectors have
\* returned, with noise that is not the same in every entry.
C1_Witness ==
    /\ first.op = "create_t_x"
    /\ last.op = "create_t_x"
    /\ first.theta = last.theta
    /\ first.seed = last.seed
    /\ last.seed # None
    /\ ~last.out.err
    /\ BatchSize(last.theta) = 2
    /\ \E k \in 1..(2 * GridPoints - 1) : Draw(last.keys[1], k) # Draw(last.keys[1], 0)

\* C2: create_t_x treats a single vector as a batch of N = 1 and returns a
\* trace of shape (GridPoints x N) whose entry at time index i and sample j is
\* a_j * t_i^2 + b_j * t_i + c_j + 0.01 * noise[i][j], the noise of each entry
\* being a draw of its own.
C2_TraceShapeAndEntries ==
    \A c \in Calls :
        (c.op = "create_t_x" /\ ~c.out.err)
            => /\ Len(c.out.t) = GridPoints
               /\ c.out.val.ndim = 2
               /\ Len(c.out.val.rows) = GridPoints
               /\ \A i \in 1..GridPoints :
                    /\ Len(c.out.val.rows[i]) = BatchSize(c.theta)
                    /\ \A j \in 1..BatchSize(c.theta) :
                         c.out.val.rows[i][j] = TraceValue(c.theta, c.keys[1], c.out.t, i, j)

\* create_t_x has returned the trace of a batch of two different vectors whose
\* two columns carry different noise at some time index.
C2_Witness ==
    /\ last.op = "create_t_x"
    /\ ~last.out.err
    /\ last.theta.ndim = 2
    /\ BatchSize(last.theta) = 2
    /\ last.theta.rows[1] # last.theta.rows[2]
    /\ Len(last.out.val.rows[1]) = 2
    /\ \E i \in 1..GridPoints :
            Draw(last.keys[1], 2 * (i - 1)) # Draw(last.keys[1], 2 * (i - 1) + 1)

\* C3: get_3_values returns an (N x 3) matrix whose row j, column k is
\* a_j * t_k^2 + b_j * t_k + c_j plus the noise of the k-th eval call, for the
\* times (-0.5, 0, 0.75) in that order; without noise theta = (1, 0, 0) gives
\* the row (0.25, 0, 0.5625), which is (200, 0, 450) over 800.
C3_ThreeValues ==
    \A c \in Calls :
        (c.op = "get_3_values" /\ ~c.out.err)
            => /\ c.out.val.ndim = 2
               /\ Len(c.out.val.rows) = BatchSize(c.theta)
               /\ \A j \in 1..BatchSize(c.theta) :
                    /\ Len(c.out.val.rows[j]) = 3
                    /\ \A k \in 1..3 :
                         c.out.val.rows[j][k] =
                            PointValue(c.theta, j, <<-2, 0, 3>>[k])
                                + 8 * Draw(c.keys[k], 0)
                    /\ (/\ c.theta.rows[j] = <<10, 0, 0>>
                        /\ \A k \in 1..3 : Draw(c.keys[k], 0) = 0)
                            => c.out.val.rows[j] = <<200, 0, 450>>

\* get_3_values has returned (0.25, 0, 0.5625) for the single vector (1, 0, 0)
\* under a seed whose first draw is zero.
C3_Witness ==
    /\ first.op = "get_3_values"
    /\ first.theta = Array1D(<<10, 0, 0>>)
    /\ first.seed # None
    /\ Draw(first.keys[1], 0) = 0
    /\ ~first.out.err
    /\ first.out.val.rows = <<<<200, 0, 450>>>>

RECURSIVE SquaredErrorSum(_, _, _)
\* The sum over the time indices 1 .. n of the squared difference between the
\* trace of sample j of the candidates and the trace of the reference.
SquaredErrorSum(c, j, n) ==
    IF n = 0 THEN 0
    ELSE LET t == [i \in 1..GridPoints |-> 2 * (i - 1) - (GridPoints - 1)]
             d == TraceValue(c.theta, c.keys[2], t, n, j)
                    - TraceValue(c.ref, c.keys[1], t, n, 1)
         IN  SquaredErrorSum(c, j, n - 1) + d * d

\* C4: get_MSE returns an (N x 1) column whose entry j is the mean over the
\* time indices of the squared difference between column j of the candidate
\* trace and the reference trace, and no entry is negative.
C4_MeanSquaredError ==
    \A c \in Calls :
        (c.op = "get_MSE" /\ ~c.out.err)
            => /\ c.out.val.ndim = 2
               /\ Len(c.out.val.rows) = BatchSize(c.theta)
               /\ \A j \in 1..BatchSize(c.theta) :
                    /\ Len(c.out.val.rows[j]) = 1
                    /\ c.out.val.rows[j][1] = SquaredErrorSum(c, j, GridPoints)
                    /\ c.out.val.rows[j][1] >= 0

\* get_MSE has returned for a batch of two candidates, one of them different
\* from the reference, without a seed.
C4_Witness ==
    /\ first.op = "get_MSE"
    /\ ~first.out.err
    /\ BatchSize(first.theta) = 2
    /\ first.seed = None
    /\ first.keys[1] # first.keys[2]
    /\ first.theta.rows[1] # first.ref.rows[1]
    /\ first.out.val.rows[1][1] > 0
    /\ first.out.val.rows[1][1] # first.out.val.rows[2][1]

\* C5: a parameter input whose inner dimension is not 3 is rejected with an
\* error by every function, and no result is returned for it.
C5_MalformedRejected ==
    \A c \in Calls : InnerDim(c.theta) # 3 => c.out.err

\* The noise that column k of row j of a result of get_3_values carries.
ColumnNoise(c, j, k) == c.out.val.rows[j][k] - PointValue(c.theta, j, ThreeTimes[k])

\* C6, as amended: under a fixed seed each of the three eval calls of
\* get_3_values builds its generator from that seed and takes its first draw,
\* so the three columns carry one and the same noise value.
C6_SeededColumnsShareNoise ==
    \A c \in Calls :
        (c.op = "get_3_values" /\ c.seed # None /\ ~c.out.err)
            => \A j \in 1..BatchSize(c.theta) : \A k \in 1..3 :
                    ColumnNoise(c, j, k) = ColumnNoise(c, 1, 1)

\* A seeded get_3_values has returned with a noise that is not zero.
C6_Witness ==
    /\ first.op = "get_3_values"
    /\ first.seed # None
    /\ ~first.out.err
    /\ BatchSize(first.theta) = 2
    /\ ColumnNoise(first, 1, 1) # 0
    /\ ColumnNoise(first, 2, 3) = ColumnNoise(first, 1, 1)

\* C6, as stated: under a fixed seed the three columns of get_3_values do not
\* share one noise draw, that is, a seeded call can return columns whose noise
\* is not the same.
C6_SeededColumnsCanDiffer ==
    (first.op = "none" /\ InnerDim(theta) = 3)
        => ENABLED (/\ CallGet3Values
                    /\ first'.seed # None
                    /\ \E k \in 1..3 : ColumnNoise(first', 1, k) # ColumnNoise(first', 1, 1))

\* C7, as amended: with a non-None seed both create_t_x calls of get_MSE
\* rebuild their generator from that seed, so for a single candidate the noise
\* of the candidate trace is the noise of the reference trace, and a candidate
\* equal to the reference has a mean squared error of exactly 0.
C7_SeededSingleCandidateCancels ==
    \A c \in Calls :
        (/\ c.op = "get_MSE"
         /\ c.seed # None
         /\ ~c.out.err
         /\ BatchSize(c.theta) = 1
         /\ c.theta.rows[1] = c.ref.rows[1])
            => c.out.val.rows = <<<<0>>>>

\* A seeded get_MSE has returned 0 for a single candidate equal to the
\* reference although the noise of the trace is not zero.
C7_Witness ==
    /\ first.op = "get_MSE"
    /\ first.seed # None
    /\ ~first.out.err
    /\ BatchSize(first.theta) = 1
    /\ first.theta.rows[1] = first.ref.rows[1]
    /\ \E k \in 0..(GridPoints - 1) : Draw(first.keys[1], k) # 0
    /\ first.out.val.rows = <<<<0>>>>

\* C7, as stated: with a non-None seed the noise of the two traces is not
\* aligned, so a seeded call for a single candidate equal to the reference can
\* return a mean squared error that is not 0.
C7_SeededSingleCandidateCanDiffer ==
    (first.op = "none" /\ BatchSize(theta) = 1 /\ theta.rows[1] = theta_o.rows[1])
        => ENABLED (/\ CallGetMSE
                    /\ first'.seed # None
                    /\ first'.out.val.rows # <<<<0>>>>)

\* C8: one call of eval draws one noise value and adds it to every element of
\* the batch, so the output minus a_j * t^2 + b_j * t + c_j is the same for
\* every j and equal rows get equal outputs, whereas create_t_x uses a draw of
\* its own for every (time, sample) entry.
C8_EvalSharesOneDraw ==
    \A c \in Calls :
        /\ (c.op = "eval" /\ ~c.out.err)
            => /\ c.out.val.ndim = 1
               /\ Len(c.out.val.rows[1]) = BatchSize(c.theta)
               /\ \A j \in 1..BatchSize(c.theta) :
                    /\ c.out.val.rows[1][j] - PointValue(c.theta, j, c.tq)
                        = 8 * Draw(c.keys[1], 0)
                    /\ \A h \in 1..BatchSize(c.theta) :
                         c.theta.rows[j] = c.theta.rows[h]
                            => c.out.val.rows[1][j] = c.out.val.rows[1][h]
        /\ (c.op = "create_t_x" /\ ~c.out.err)
            => \A i \in 1..GridPoints : \A j \in 1..BatchSize(c.theta) :
                    c.out.val.rows[i][j]
                            - 10 * Parabola(c.theta.rows[j], c.out.t[i], GridPoints - 1)
                        = (GridPoints - 1) * (GridPoints - 1)
                            * Randn([key |-> c.keys[1]], GridPoints * BatchSize(c.theta))
                                [(i - 1) * BatchSize(c.theta) + j]

\* eval has returned for a batch of two equal vectors with a noise that is
\* not zero, after a first call on that batch.
C8_Witness ==
    /\ first.op = "eval"
    /\ last.op = "eval"
    /\ ~last.out.err
    /\ BatchSize(last.theta) = 2
    /\ last.theta.rows[1] = last.theta.rows[2]
    /\ Draw(last.keys[1], 0) # 0
    /\ last.out.val.rows[1][1] = last.out.val.rows[1][2]

\* C9: without a seed every call draws from a generator of its own, so a call
\* that has returned can be repeated on the same inputs with another result;
\* two calls on the same inputs differ only when no seed is set.
C9_UnseededCallsVary ==
    /\ (/\ first.op # "none"
        /\ last.op # "none"
        /\ SameInputs(first, last)
        /\ first.out # last.out)
            => last.seed = None
    /\ (Latest.op # "none" /\ Latest.seed = None /\ ~Latest.out.err)
            => \E e \in EntropyInputs(Len(Latest.keys)) :
                    Invoke(Latest.op, Latest.theta, Latest.ref, Latest.tq, Latest.seed, e).out
                        # Latest.out

\* Two unseeded calls of one function on the same inputs have returned
\* different results.
C9_Witness ==
    /\ first.op # "none"
    /\ last.op # "none"
    /\ SameInputs(first, last)
    /\ last.seed = None
    /\ ~last.out.err
    /\ first.out # last.out

\* A step in which a call returns or fails.
CallStep == (first' # first \/ last' # last) /\ first'.op # "none"

\* C10: no call changes anything that outlives it: the arrays theta and
\* theta_o are left as they were, a seeded call made after any other calls
\* returns what the first call on the same inputs returned, and create_t_x
\* returns the same time grid in every call.
C10_NoLastingEffect ==
    /\ [][CallStep => (theta' = theta /\ theta_o' = theta_o)]_vars
    /\ [](/\ (/\ last.op # "none"
              /\ SameInputs(first, last)
              /\ last.seed # None)
                 => last.out = first.out
          /\ (last.op = "create_t_x" /\ ~last.out.err) => last.out.t = first.out.t
          /\ \A c \in Calls : c.theta = theta /\ (c.op = "get_MSE" => c.ref = theta_o))

\* A seeded get_MSE on a batch of two has returned, after the calls made since
\* the first one, what the first call on the same inputs returned.
C10_Witness ==
    /\ first.op = "get_MSE"
    /\ last.op = "get_MSE"
    /\ first.seed # None
    /\ SameInputs(first, last)
    /\ ~last.out.err
    /\ BatchSize(last.theta) = 2
    /\ last.out = first.out

RECURSIVE SeededErrorSum(_, _, _, _, _, _)
\* The sum over the time indices 1 .. m of the squared difference between the
\* parabola of v plus 0.01 times element (i - 1) * n + (j - 1) of the stream of
\* seed s and the parabola of r plus 0.01 times element i - 1 of that stream.
SeededErrorSum(v, r, s, n, j, m) ==
    IF m = 0 THEN 0
    ELSE LET D == GridPoints - 1
             t == 2 * (m - 1) - D
             d == 10 * (Parabola(v, t, D) - Parabola(r, t, D))
                    + D * D * (Draw(s, (m - 1) * n + (j - 1)) - Draw(s, m - 1))
         IN  SeededErrorSum(v, r, s, n, j, m - 1) + d * d

RECURSIVE NoiseFreeErrorSum(_, _, _)
\* The sum over the time indices 1 .. m of the squared difference between the
\* parabolas of v and r.
NoiseFreeErrorSum(v, r, m) ==
    IF m = 0 THEN 0
    ELSE LET D == GridPoints - 1
             t == 2 * (m - 1) - D
             d == 10 * (Parabola(v, t, D) - Parabola(r, t, D))
         IN  NoiseFreeErrorSum(v, r, m - 1) + d * d

\* The seeded calls of get_MSE that have returned.
SeededMSECalls == {c \in Calls : c.op = "get_MSE" /\ c.seed # None /\ ~c.out.err}

\* C11: with a seed s and N candidates both traces of get_MSE come from a
\* generator freshly seeded with s, the reference noise at time index i being
\* element i of the stream and the candidate noise at (i, j) element i * N + j;
\* for N = 1 the two coincide at every time index and the value carries no
\* noise, and the value of a candidate depends on N and on its position j:
\* the same candidate, reference and seed get another value in another batch
\* or at another position.
C11_SeededNoiseIndices ==
    \A c \in SeededMSECalls :
        LET n == BatchSize(c.theta)
            r == c.ref.rows[1]
            s == c.seed[1]
        IN  /\ c.keys = <<s, s>>
            /\ \A j \in 1..n :
                    /\ c.out.val.rows[j][1]
                            = SeededErrorSum(c.theta.rows[j], r, s, n, j, GridPoints)
                    /\ n = 1 => c.out.val.rows[j][1]
                                    = NoiseFreeErrorSum(c.theta.rows[j], r, GridPoints)
                    /\ \E b \in {Array2D(rs) : rs \in Batches(Triples \cup {c.theta.rows[j]})} :
                         \E h \in 1..BatchSize(b) :
                            /\ b.rows[h] = c.theta.rows[j]
                            /\ BatchSize(b) # n \/ h # j
                            /\ Invoke("get_MSE", b, c.ref, 0, c.seed, <<s, s>>)
                                        .out.val.rows[h][1]
                                    # c.out.val.rows[j][1]

\* A seeded get_MSE has returned for a batch of two copies of the reference:
\* the two copies get different values, and not the 0 a single copy gets.
C11_Witness ==
    /\ first.op = "get_MSE"
    /\ first.seed # None
    /\ ~first.out.err
    /\ BatchSize(first.theta) = 2
    /\ first.theta.rows[1] = first.ref.rows[1]
    /\ first.theta.rows[2] = first.ref.rows[1]
    /\ first.out.val.rows[1][1] # first.out.val.rows[2][1]
    /\ first.out.val.rows[1][1] # 0
    /\ \E i \in 1..GridPoints :
            Draw(first.seed[1], (i - 1) * 2) # Draw(first.seed[1], i - 1)

====
